---- MODULE Spec2Model ----
(***************************************************************************)
(* SignLingoKids: the ThreeRenderer service (scene / model / animation     *)
(* wrapper around three.js) and the HomePage screen that drives it.        *)
(*                                                                         *)
(*   src/src/app/services/three-renderer.service.ts   ThreeRenderer        *)
(*   src/capacitor.config.ts (home.page.ts part)      HomePage             *)
(*                                                                         *)
(* Asynchronous operations (loadModel, playAnimationForExistingModel,      *)
(* ngAfterViewInit, playSign) are split at their await: the part before    *)
(* the await is one action, the continuation after the asset load settles  *)
(* is another.  Everything between two awaits runs without interleaving    *)
(* (single JavaScript thread), so it is one atomic step.                   *)
(***************************************************************************)
EXTENDS Integers, Sequences, FiniteSets, TLC

----------------------------------------------------------------------------
(* Bounds of the model                                                     *)

\* model objects over a run: those loadModel created and those it is loading
MaxModels == 2
\* actions of external clips over a run, made or being loaded by
\* playAnimationForExistingModel: for a client calling the service, and for
\* the signs selected on the screen
MaxPlays == 1
MaxSigns == 2
\* render loops started over a run: calls of initialize that succeed
MaxLoops == 2

----------------------------------------------------------------------------
(* Exact rational numbers <<n, d>>, d > 0, in lowest terms, standing for   *)
(* the JavaScript numbers of positions, scales and bounding boxes.         *)

Abs(n) == IF n < 0 THEN -n ELSE n

RECURSIVE Gcd(_, _)
Gcd(a, b) == IF b = 0 THEN a ELSE Gcd(b, a % b)

Rat(n, d) ==
    LET g == Gcd(Abs(n), Abs(d))
        s == IF d < 0 THEN -1 ELSE 1
    IN  <<(s * n) \div g, (s * d) \div g>>

RInt(n) == <<n, 1>>
RAdd(a, b) == Rat(a[1] * b[2] + b[1] * a[2], a[2] * b[2])
RSub(a, b) == Rat(a[1] * b[2] - b[1] * a[2], a[2] * b[2])
RMul(a, b) == Rat(a[1] * b[1], a[2] * b[2])
RDiv(a, b) == Rat(a[1] * b[2], a[2] * b[1])
RNeg(a) == <<-a[1], a[2]>>
RLess(a, b) == a[1] * b[2] < b[1] * a[2]
RMax(a, b) == IF RLess(a, b) THEN b ELSE a
RZero == RInt(0)
RHalf == Rat(1, 2)

\* The JavaScript numbers that are no rationals: NaN, and the infinities a
\* division by zero gives
NaN == <<0, 0>>
IsNaN(a) == a[1] = 0 /\ a[2] = 0
IsFinite(a) == a[2] > 0
\* a / b on finite numbers and NaN: x/0 is +-Infinity, 0/0 is NaN
JsDiv(a, b) ==
    IF IsNaN(a) \/ IsNaN(b) THEN NaN
    ELSE IF b[1] = 0
         THEN (IF a[1] = 0 THEN NaN ELSE <<(IF a[1] < 0 THEN -1 ELSE 1), 0>>)
         ELSE RDiv(a, b)
\* Math.max(a, b): NaN when either is
JsMax(a, b) == IF IsNaN(a) \/ IsNaN(b) THEN NaN ELSE RMax(a, b)

\* THREE.Vector3
Vec(x, y, z) == [x |-> x, y |-> y, z |-> z]
VZero == Vec(RZero, RZero, RZero)
VScale(v, s) == Vec(RMul(v.x, s), RMul(v.y, s), RMul(v.z, s))
VAdd(a, b) == Vec(RAdd(a.x, b.x), RAdd(a.y, b.y), RAdd(a.z, b.z))
VSub(a, b) == Vec(RSub(a.x, b.x), RSub(a.y, b.y), RSub(a.z, b.z))

\* THREE.Box3.setFromObject(model): the world-space box of a model whose
\* geometry has the local box `box`, placed at `position` with the uniform
\* (positive) scale `scale`.
SetFromObject(box, position, scale) ==
    [min |-> VAdd(position, VScale(box.min, scale)),
     max |-> VAdd(position, VScale(box.max, scale))]
\* Box3.getCenter and Box3.getSize
GetCenter(b) == VScale(VAdd(b.min, b.max), RHalf)
GetSize(b) == VSub(b.max, b.min)
\* Math.max(size.x, size.y, size.z)
MaxDim(size) == RMax(size.x, RMax(size.y, size.z))

----------------------------------------------------------------------------
(* Assets: what the GLTFLoader may deliver                                 *)

\* The JavaScript value undefined where a colour or a name is expected
Undefined == "undefined"

\* A JavaScript string-or-undefined (HomePage.error, e.message): whether it
\* is defined and, if so, the pieces it is concatenated from
NoString == [defined |-> FALSE, text |-> <<>>]
Str(pieces) == [defined |-> TRUE, text |-> pieces]
\* a string is truthy when it is defined and not ''
Truthy(str) == str.defined /\ \E i \in DOMAIN str.text : str.text[i] # ""

\* Names of animation clips found in the asset files
ClipNames == {"Idle", "BallSign"}

\* Local bounding boxes of two character meshes: a tall one whose feet are
\* at the origin, and a unit cube sitting in the positive octant.
BoxTall == [min |-> Vec(RInt(-1), RInt(0), RInt(-1)),
            max |-> Vec(RInt(1), RInt(4), RInt(1))]
BoxCube == [min |-> Vec(RInt(0), RInt(0), RInt(0)),
            max |-> Vec(RInt(1), RInt(1), RInt(1))]

\* A parsed base-character file (gltf.scene and gltf.animations): a rigged
\* character with one embedded clip, and a character with none.
ModelAssets ==
    { [animations |-> <<"Idle">>, box |-> BoxTall],
      [animations |-> <<>>, box |-> BoxCube] }

\* What loader.loadAsync(actionUrl) settles with: a load or parse failure,
\* or the file's gltf.animations (clip names; only the first one is used).
LoadFailure == "failure"
ActionAssets ==
    { [status |-> LoadFailure, animations |-> <<>>],
      [status |-> "ok", animations |-> <<>>] }
    \cup { [status |-> "ok", animations |-> <<c>>] : c \in ClipNames }

\* The message property of the value a failed load rejects with: an Error
\* with a message, an Error with an empty message, or an event without one.
ErrorMessages == {Str(<<"Network error">>), Str(<<>>), NoString}

----------------------------------------------------------------------------
(* HomePage: the catalogue                                                 *)

\* HomePage.aslSigns (the ids; label and description are display text)
aslSigns == <<"Afraid", "Afternoon", "AirPlane", "Ball">>
SignIds == {aslSigns[i] : i \in DOMAIN aslSigns}

\* A resource path as its sequence of segments; a leading "/" and a leading
\* "http" scheme are segments of their own.
\* `assets/aslkidanimation/actions/${sign.id}.glb`
ActionPath(signId) == <<"assets", "aslkidanimation", "actions", signId, ".glb">>

\* ThreeRenderer.fixResourcePath
fixResourcePath(actionUrl) ==
    IF Len(actionUrl) > 0 /\ Head(actionUrl) = "http" THEN actionUrl
    ELSE IF Len(actionUrl) > 0 /\ Head(actionUrl) = "/" THEN Tail(actionUrl)
    ELSE actionUrl

----------------------------------------------------------------------------
(* ThreeRenderer: the fields of the service and the three.js objects they  *)
(* refer to, as one record w.                                              *)
(*                                                                         *)
(*   w.models            every THREE.Object3D a loadModel created, by id   *)
(*   w.animationActions  every THREE.AnimationAction created, by id        *)
(*   w.currentModel      id of the current model, 0 for undefined          *)
(*   w.mixer             NoMixer, or the id of the mixer's root model      *)
(*                       (RootUndefined: a mixer built on undefined)       *)
(*   w.actions           the Map clip name -> action id, 0 for no entry    *)
(*   w.activeAction      action id, 0 for undefined                        *)
(*   w.camera            whether the camera exists, and its aspect         *)
(*   w.size              the renderer's <<width, height>> (setSize)        *)
(*   w.frameId           FALSE for null, TRUE once a frame was requested   *)
(*   w.raf               pending requestAnimationFrame callbacks: whether  *)
(*                       the one frameId names is pending, and how many    *)
(*                       others are                                        *)
(***************************************************************************)

NoMixer == -1
RootUndefined == 0

\* new Map(), and Map.clear()
EmptyMap == [n \in ClipNames |-> 0]

\* new ThreeRenderer(): field initialisers and constructor
NewThreeRenderer ==
    [scene |-> [defined |-> FALSE, children |-> {}, lights |-> FALSE,
                background |-> Undefined],
     camera |-> [defined |-> FALSE, aspect |-> RZero],
     renderer |-> "undefined",
     size |-> <<RZero, RZero>>,
     controls |-> [state |-> "undefined", targetY |-> RZero],
     frameId |-> FALSE,
     raf |-> [current |-> FALSE, other |-> 0],
     models |-> <<>>,
     animationActions |-> <<>>,
     currentModel |-> 0,
     mixer |-> NoMixer,
     actions |-> EmptyMap,
     activeAction |-> 0]

\* Map.has
Has(w, clipName) == w.actions[clipName] # 0

\* ThreeRenderer.getClipNames (as a set: the order is not part of its contract)
getClipNames(w) == {n \in ClipNames : w.actions[n] # 0}

\* Map.set
MapSet(m, k, v) == [m EXCEPT ![k] = v]

\* THREE.AnimationAction.stop(): deactivated and reset; reset ends any fade
StopAction(a) == [a EXCEPT !.mode = "stopped"]

\* the actions of w.animationActions with ids in `ids`, stopped
StopActions(w, ids) ==
    [w EXCEPT !.animationActions =
        [i \in DOMAIN w.animationActions |->
            IF i \in ids THEN StopAction(w.animationActions[i])
            ELSE w.animationActions[i]]]

\* ids of the actions the registry holds
RegistryActions(w) == {w.actions[n] : n \in getClipNames(w)}

\* AnimationAction.isRunning()
IsRunning(w, id) == w.animationActions[id].mode = "running"

----------------------------------------------------------------------------
(* ThreeRenderer: the methods, as functions from the record before the     *)
(* call to the record after it                                             *)

\* ThreeRenderer.animate, the part that does not depend on who called it:
\* request the next frame and remember its id; the callback frameId named
\* before, if still pending, stays pending under its own id.
RequestFrame(w) ==
    [w EXCEPT !.frameId = TRUE,
              !.raf = [current |-> TRUE,
                       other |-> w.raf.other + (IF w.raf.current THEN 1 ELSE 0)]]

\* THREE.AnimationMixer.update(dt) as far as one action is concerned: the
\* time that passed ends its fade-out (which disables the action) or its
\* clip (LoopOnce, clampWhenFinished: it pauses); it no longer runs.
Advance(a) == [a EXCEPT !.mode = "ended"]

\* the actions mixer.update(dt) can change: those of the current mixer that
\* run or fade
Advancing(w) ==
    {i \in DOMAIN w.animationActions :
        /\ w.mixer > 0
        /\ w.animationActions[i].root = w.mixer
        /\ w.animationActions[i].mode \in {"running", "fadingOut"}}

\* ThreeRenderer.animate: one pass of the loop; adv is the action whose
\* fade or clip the elapsed time ends (0: none)
animate(w, adv) ==
    LET w1 == RequestFrame(w)
    IN  IF adv # 0 /\ w1.mixer # NoMixer
        THEN [w1 EXCEPT !.animationActions[adv] = Advance(@)]
        ELSE w1

\* the width and height of the drawing surface initialize is given
Canvas == [width |-> RInt(4), height |-> RInt(3)]

\* ThreeRenderer.initialize; ok = FALSE: new THREE.WebGLRenderer throws (no
\* WebGL context), which leaves the new scene and camera behind and skips
\* the lights, the controls and the start of the loop
initialize(w, ok) ==
    LET w1 == [w EXCEPT !.scene = [defined |-> TRUE, children |-> {},
                                   lights |-> FALSE, background |-> "0xf0f0f0"],
                        !.camera = [defined |-> TRUE,
                                    aspect |-> JsDiv(Canvas.width, Canvas.height)]]
    IN  IF ~ok THEN w1
        ELSE animate([w1 EXCEPT !.renderer = "live",
                                !.size = <<Canvas.width, Canvas.height>>,
                                !.scene.lights = TRUE,
                                !.controls = [state |-> "live", targetY |-> RInt(1)]],
                     0)

\* the smallest aspect resize leaves: 1e-6
MinAspect == Rat(1, 1000000)

\* (mutant) the height is used as it is
ClampHeight_None(height) == height

\* Math.max(1, height)
ClampHeight(height) == JsMax(RInt(1), height)

\* ThreeRenderer.resize
resize(w, width, height) ==
    IF w.renderer = "undefined" \/ ~w.camera.defined THEN w
    ELSE [w EXCEPT !.camera.aspect = JsMax(MinAspect, JsDiv(width, ClampHeight(height))),
                   !.size = <<width, height>>]

\* ThreeRenderer.setBackground
setBackground(w, color) ==
    IF ~w.scene.defined THEN w ELSE [w EXCEPT !.scene.background = color]

\* ThreeRenderer.disposeCurrentModel
disposeCurrentModel(w) ==
    IF w.currentModel = 0 THEN w
    ELSE LET stopped == StopActions(w, (RegistryActions(w) \cup {w.activeAction}) \ {0})
         IN  [stopped EXCEPT !.activeAction = 0,
                             !.actions = EmptyMap,
                             !.mixer = NoMixer,
                             !.scene.children = @ \ {w.currentModel},
                             !.models[w.currentModel].disposed = TRUE,
                             !.currentModel = 0]

\* ThreeRenderer.ngOnDestroy
ngOnDestroy(w) ==
    LET w1 == IF w.frameId THEN [w EXCEPT !.raf.current = FALSE] ELSE w
        w2 == IF w1.controls.state = "undefined" THEN w1
              ELSE [w1 EXCEPT !.controls.state = "disposed"]
        w3 == disposeCurrentModel(w2)
        w4 == IF w3.renderer = "undefined" THEN w3
              ELSE [w3 EXCEPT !.renderer = "disposed"]
    IN  IF ~w4.scene.defined THEN w4
        ELSE [w4 EXCEPT !.scene.children = {}, !.scene.lights = FALSE]

\* ThreeRenderer.stop
stop(w) ==
    IF w.activeAction = 0 THEN w
    ELSE [StopActions(w, {w.activeAction}) EXCEPT !.activeAction = 0]

\* AnimationAction.fadeOut(fadeSeconds): a running action keeps running
\* while its weight goes to 0; on any other the fade has nothing to end
FadeOut(a) == IF a.mode = "running" THEN [a EXCEPT !.mode = "fadingOut"] ELSE a

\* (mutant) an unregistered name stops the active animation
play_StopOnMiss(w, clipName) ==
    IF w.actions[clipName] = 0 THEN stop(w)
    ELSE [w EXCEPT !.animationActions[w.actions[clipName]] =
                        [@ EXCEPT !.mode = "running"],
                   !.activeAction = w.actions[clipName]]

\* ThreeRenderer.play (fadeSeconds = 0.3: the length of the fades).  The
\* target is reset, faded in and played: it runs.
play(w, clipName) ==
    LET next == w.actions[clipName]
        w1 == IF w.activeAction # 0 /\ w.activeAction # next
              THEN [w EXCEPT !.animationActions[w.activeAction] = FadeOut(@)]
              ELSE w
    IN  IF next = 0 THEN w
        ELSE [w1 EXCEPT !.animationActions[next] =
                            [@ EXCEPT !.mode = "running"],
                        !.activeAction = next]

\* new THREE.AnimationAction by mixer.clipAction(clip) on the mixer rooted
\* at model `root`, not yet played; external tells the actions
\* playAnimationForExistingModel made from those loadModel made
NewAction(root, clipName) ==
    [root |-> root, clip |-> clipName, external |-> FALSE, mode |-> "stopped"]

\* ThreeRenderer.loadModel, lines 107-113: one action per embedded clip, in
\* order, each stored in the registry under its clip's name
RECURSIVE AddClips(_, _, _)
AddClips(w, root, clips) ==
    IF clips = <<>> THEN w
    ELSE AddClips(
           [w EXCEPT !.animationActions = Append(@, NewAction(root, Head(clips))),
                     !.actions = MapSet(@, Head(clips), Len(w.animationActions) + 1)],
           root, Tail(clips))

\* ThreeRenderer.loadModel up to its await
loadModelCall(w) == disposeCurrentModel(w)

\* (mutant) the registry is not cleared when the asset has arrived
ResetAnimations_KeepRegistry(w) == [w EXCEPT !.mixer = NoMixer]

\* ThreeRenderer.loadModel, lines 96-98: the registry and the mixer are reset
ResetAnimations(w) == [w EXCEPT !.actions = EmptyMap, !.mixer = NoMixer]

\* ThreeRenderer.loadModel after the await, the asset having loaded
loadModelThen(w, gltf) ==
    LET id == Len(w.models) + 1
        box == SetFromObject(gltf.box, VZero, RInt(1))
        size == GetSize(box)
        center == GetCenter(box)
        maxDim == MaxDim(size)
        model == [asset |-> gltf,
                  position |-> VSub(VZero, center),
                  scale |-> IF RLess(RZero, maxDim)
                            THEN RDiv(Rat(3, 2), maxDim) ELSE RInt(1),
                  visible |-> TRUE,
                  disposed |-> FALSE]
        w1 == ResetAnimations([w EXCEPT !.models = Append(@, model)])
        w2 == IF Len(gltf.animations) > 0
              THEN AddClips([w1 EXCEPT !.mixer = id], id, gltf.animations)
              ELSE w1
    IN  [w2 EXCEPT !.scene.children = @ \cup {id}, !.currentModel = id]

\* the scale centerModel leaves: set, not multiplied, from the world size
CenterScale(scale, maxDim) ==
    IF RLess(RInt(3), maxDim) THEN RDiv(RInt(3), maxDim)
    ELSE IF RLess(maxDim, RInt(1)) THEN RDiv(RInt(1), maxDim)
    ELSE scale

\* ThreeRenderer.centerModel
centerModel(w) ==
    IF w.currentModel = 0 THEN w
    ELSE LET m == w.models[w.currentModel]
             box == SetFromObject(m.asset.box, VZero, m.scale)
             center == GetCenter(box)
             size == GetSize(box)
             w1 == [w EXCEPT !.models[w.currentModel].position =
                                Vec(RNeg(center.x),
                                    RAdd(RNeg(center.y), RMul(size.y, RHalf)),
                                    RNeg(center.z)),
                             !.models[w.currentModel].scale =
                                CenterScale(m.scale, MaxDim(size))]
         IN  IF w1.controls.state = "undefined" THEN w1
             ELSE [w1 EXCEPT !.controls.targetY = RMul(size.y, RHalf)]

\* (mutant) the model is re-centred whatever its y
Recover_AlwaysCenter(w) ==
    IF w.currentModel = 0 THEN w
    ELSE centerModel([w EXCEPT !.models[w.currentModel].visible = TRUE])

\* ThreeRenderer.playAnimationForExistingModel, the catch block: the model,
\* if there is one, is made visible and re-centred when its y is 0
Recover(w) ==
    IF w.currentModel = 0 THEN w
    ELSE LET w1 == [w EXCEPT !.models[w.currentModel].visible = TRUE]
         IN  IF w1.models[w1.currentModel].position.y = RZero
             THEN centerModel(w1) ELSE w1

\* (mutant) the registered actions are not stopped, only the active one
PrepareMixer_KeepRegistered(w) ==
    LET w1 == IF w.mixer = NoMixer THEN [w EXCEPT !.mixer = w.currentModel] ELSE w
    IN  IF w1.activeAction # 0
        THEN [w1 EXCEPT !.activeAction = 0] ELSE w1

\* lines 419-432: a mixer is made on the current model if there is none, and
\* every registered action and the active one are stopped
PrepareMixer(w) ==
    LET w1 == IF w.mixer = NoMixer THEN [w EXCEPT !.mixer = w.currentModel] ELSE w
        w2 == StopActions(w1, RegistryActions(w1))
    IN  IF w2.activeAction # 0
        THEN [StopActions(w2, {w2.activeAction}) EXCEPT !.activeAction = 0]
        ELSE w2

\* lines 434-447: the new action of the clip, played without a fade, active
StartAction(w, clipName) ==
    [w EXCEPT !.animationActions =
                 Append(@, [NewAction(w.mixer, clipName) EXCEPT
                               !.mode = "running", !.external = TRUE]),
              !.activeAction = Len(w.animationActions) + 1]

\* (mutant) the saved transform is not copied back
RestoreAndStore_NoRestore(w, saved, clipName) ==
    IF Has(w, clipName) THEN w
    ELSE [w EXCEPT !.actions = MapSet(@, clipName, w.activeAction)]

\* lines 449-458: the saved transform is copied onto the current model and
\* the action is registered unless its clip's name already is
RestoreAndStore(w, saved, clipName) ==
    LET w1 == [w EXCEPT !.models[w.currentModel].position = saved.position,
                        !.models[w.currentModel].scale = saved.scale]
    IN  IF Has(w1, clipName) THEN w1
        ELSE [w1 EXCEPT !.actions = MapSet(@, clipName, w1.activeAction)]

\* lines 403-408: the await throws (the asset failed to load), or the file
\* holds no animation and the method throws
NoClip(gltf) == gltf.status = LoadFailure \/ Len(gltf.animations) = 0

\* ThreeRenderer.playAnimationForExistingModel after the await: gltf is what
\* the load settled with, saved the position and scale taken before it.
\* The result is the record after, and whether the promise resolves.
\* mixer.clipAction throws on a mixer whose root is undefined (root.uuid),
\* and position.copy throws when there is no current model.
playAnimationThen(w, saved, gltf) ==
    IF NoClip(gltf)
    THEN [w |-> Recover(w), resolved |-> FALSE]
    ELSE LET clipName == gltf.animations[1]
             w1 == PrepareMixer(w)
         IN  IF w1.mixer = RootUndefined
             THEN [w |-> Recover(w1), resolved |-> FALSE]
             ELSE LET w2 == StartAction(w1, clipName)
                  IN  IF w2.currentModel = 0
                      THEN [w |-> Recover(w2), resolved |-> FALSE]
                      ELSE [w |-> RestoreAndStore(w2, saved, clipName),
                            resolved |-> TRUE]

----------------------------------------------------------------------------
(* State                                                                   *)

VARIABLES
    three,        \* the ThreeRenderer service (one per application)
    home,         \* the HomePage component
    modelLoads,   \* how many loadModel calls of a client wait for their asset
    actionLoads,  \* the playAnimationForExistingModel calls waiting for theirs
    last          \* the step just taken: operation, caller, outcome

vars == <<three, home, modelLoads, actionLoads, last>>

\* new HomePage(): field initialisers; view is where ngAfterViewInit stands,
\* timers the pending setTimeout callbacks of playSign
NewHomePage ==
    [view |-> "created",
     destroyed |-> FALSE,
     listName |-> {},
     selectedSign |-> Undefined,
     loading |-> TRUE,
     error |-> NoString,
     characterLoaded |-> FALSE,
     isPlaying |-> FALSE,
     timers |-> 0]

\* the callers of the service
Client == "client"
Home == "home"

Step(op, by, ok) == [op |-> op, by |-> by, ok |-> ok]

Init ==
    /\ three = NewThreeRenderer
    /\ home = NewHomePage
    /\ modelLoads = 0
    /\ actionLoads = <<>>
    /\ last = Step("new", Client, TRUE)

\* a sequence without its i-th element
Without(seq, i) == SubSeq(seq, 1, i - 1) \o SubSeq(seq, i + 1, Len(seq))

\* model objects made or being loaded, actions of external clips made or
\* being loaded
ModelsInUse == Len(three.models) + modelLoads + (IF home.view = "awaitLoad" THEN 1 ELSE 0)
PlaysInUse ==
    Cardinality({i \in DOMAIN three.animationActions :
                    three.animationActions[i].external}) + Len(actionLoads)

----------------------------------------------------------------------------
(* The service called directly through its public methods                  *)

\* Angular destroys the service with its injector: nothing holds it after
\* ngOnDestroy, so no new call is made on it; loads in flight still settle
\* and frame callbacks that were not cancelled still run.
InService == three.renderer # "disposed"

\* initialize(canvas, width, height), called once
Initialize ==
    /\ InService
    /\ ~three.scene.defined
    /\ three' = initialize(three, TRUE)
    /\ last' = Step("initialize", Client, TRUE)
    /\ UNCHANGED <<home, modelLoads, actionLoads>>

\* loadModel(url), up to the await.  scene is declared always assigned
\* (scene!: THREE.Scene): callers load only after initialize.
LoadModel ==
    /\ InService
    /\ three.scene.defined
    /\ ModelsInUse < MaxModels
    /\ three' = loadModelCall(three)
    /\ modelLoads' = modelLoads + 1
    /\ last' = Step("loadModel", Client, TRUE)
    /\ UNCHANGED <<home, actionLoads>>

\* the asset of a client's loadModel arrives: the promise resolves
LoadModelResolved ==
    \E gltf \in ModelAssets :
        /\ modelLoads > 0
        /\ three' = loadModelThen(three, gltf)
        /\ modelLoads' = modelLoads - 1
        /\ last' = Step("loadModel.resolved", Client, TRUE)
        /\ UNCHANGED <<home, actionLoads>>

\* the asset of a client's loadModel cannot be fetched or parsed: the catch
\* block rethrows, the promise rejects
LoadModelRejected ==
    /\ modelLoads > 0
    /\ modelLoads' = modelLoads - 1
    /\ last' = Step("loadModel.rejected", Client, FALSE)
    /\ UNCHANGED <<three, home, actionLoads>>

\* play(clipName); the step's outcome tells whether the name was registered
Play ==
    \E clipName \in ClipNames :
        /\ InService
        /\ three' = play(three, clipName)
        /\ last' = Step("play", Client, Has(three, clipName))
        /\ UNCHANGED <<home, modelLoads, actionLoads>>

\* stop()
Stop ==
    /\ InService
    /\ three' = stop(three)
    /\ last' = Step("stop", Client, TRUE)
    /\ UNCHANGED <<home, modelLoads, actionLoads>>

\* centerModel()
CenterModel ==
    /\ InService
    /\ three' = centerModel(three)
    /\ last' = Step("centerModel", Client, three.currentModel # 0)
    /\ UNCHANGED <<home, modelLoads, actionLoads>>

\* what playAnimationForExistingModel keeps across its await: the fixed url
\* and the clones of the model's position and scale.  model is the model
\* that was current at the call; the method keeps no reference to it, the
\* field only records it.
ActionLoad(w, actionUrl, by) ==
    [url |-> fixResourcePath(actionUrl), by |-> by,
     model |-> w.currentModel,
     position |-> w.models[w.currentModel].position,
     scale |-> w.models[w.currentModel].scale]

\* the paths a client asks for: one sign's, relative and with a leading "/"
ClientUrls == {ActionPath(aslSigns[4]), <<"/">> \o ActionPath(aslSigns[4])}

\* (mutant) the check for a current model is missing: the load is started
PlayAnimationForExistingModel_NoGuard ==
    \E actionUrl \in ClientUrls :
        /\ InService
        /\ PlaysInUse < MaxPlays
        /\ actionLoads' = Append(actionLoads,
              IF three.currentModel = 0
              THEN [url |-> fixResourcePath(actionUrl), by |-> Client, model |-> 0,
                    position |-> VZero, scale |-> RInt(1)]
              ELSE ActionLoad(three, actionUrl, Client))
        /\ last' = Step("playAnimation", Client, TRUE)
        /\ UNCHANGED <<three, home, modelLoads>>

\* playAnimationForExistingModel(actionUrl), up to the await: it throws
\* Error('No character model loaded') at once when there is no current
\* model (the promise rejects, step "playAnimation.noModel")
PlayAnimationForExistingModel ==
    \E actionUrl \in ClientUrls :
        /\ InService
        /\ PlaysInUse < MaxPlays
        /\ IF three.currentModel = 0
           THEN /\ last' = Step("playAnimation.noModel", Client, FALSE)
                /\ UNCHANGED actionLoads
           ELSE /\ actionLoads' = Append(actionLoads, ActionLoad(three, actionUrl, Client))
                /\ last' = Step("playAnimation", Client, TRUE)
        /\ UNCHANGED <<three, home, modelLoads>>

\* the action asset of a client's call settles; the rest of the method runs
ActionLoadSettled ==
    \E i \in DOMAIN actionLoads, gltf \in ActionAssets :
        /\ actionLoads[i].by = Client
        /\ LET r == playAnimationThen(three, actionLoads[i], gltf)
           IN  /\ three' = r.w
               /\ last' = Step(IF r.resolved THEN "playAnimation.resolved"
                               ELSE IF NoClip(gltf) THEN "playAnimation.rejected"
                               ELSE "playAnimation.threw", Client, r.resolved)
        /\ actionLoads' = Without(actionLoads, i)
        /\ UNCHANGED <<home, modelLoads>>

\* a pending frame callback runs animate: the one frameId names, or another
AnimateFrame ==
    \E cur \in BOOLEAN, adv \in Advancing(three) \cup {0} :
        /\ IF cur THEN three.raf.current ELSE three.raf.other > 0
        /\ three' = animate(IF cur THEN [three EXCEPT !.raf.current = FALSE]
                            ELSE [three EXCEPT !.raf.other = @ - 1], adv)
        /\ last' = Step("animate", Client, TRUE)
        /\ UNCHANGED <<home, modelLoads, actionLoads>>

\* ngOnDestroy(): Angular destroys the service
NgOnDestroy ==
    /\ three' = ngOnDestroy(three)
    /\ last' = Step("ngOnDestroy", Client, TRUE)
    /\ UNCHANGED <<home, modelLoads, actionLoads>>

Next ==
    \/ Initialize
    \/ LoadModel
    \/ LoadModelResolved
    \/ LoadModelRejected
    \/ Play
    \/ Stop
    \/ PlayAnimationForExistingModel
    \/ ActionLoadSettled
    \/ AnimateFrame
    \/ NgOnDestroy

\* The service under any caller of its animation methods.
Spec == Init /\ [][Next]_vars

\* the operations that make, replace and move the model, and those that
\* start animations on it
PoseNext ==
    \/ Initialize
    \/ LoadModel
    \/ LoadModelResolved
    \/ LoadModelRejected
    \/ Play
    \/ CenterModel
    \/ PlayAnimationForExistingModel
    \/ ActionLoadSettled

\* The service under a caller that also re-centres the model.
PoseSpec == Init /\ [][PoseNext]_vars

\* the frame callbacks that are pending
FramesPending(w) == w.raf.other + (IF w.raf.current THEN 1 ELSE 0)

\* initialize(canvas, width, height) called again on the service: the root
\* singleton is given to every HomePage, whose ngAfterViewInit initializes
\* it each time the screen is shown.  Each call that succeeds calls animate.
Reinitialize ==
    \E ok \in BOOLEAN :
        /\ InService
        /\ three.scene.defined
        /\ FramesPending(three) < MaxLoops
        /\ three' = initialize(three, ok)
        /\ last' = Step("initialize", Client, ok)
        /\ UNCHANGED <<home, modelLoads, actionLoads>>

ReinitNext == Next \/ Reinitialize

\* The service under a caller that may initialize it more than once.
ReinitSpec == Init /\ [][ReinitNext]_vars

----------------------------------------------------------------------------
(* HomePage driving the service                                            *)

\* (mutant) e.message is stored as it is
MessageOr_NoFallback(message, fallback) == message

\* e?.message || fallback
MessageOr(message, fallback) == IF Truthy(message) THEN message ELSE fallback

\* HomePage.ngAfterViewInit up to its await.  initialize may throw (ok =
\* FALSE, rejecting with e): the catch block then ends the method.
NgAfterViewInit ==
    \E ok \in BOOLEAN, e \in ErrorMessages :
        /\ home.view = "created"
        /\ IF ok
           THEN /\ three' = loadModelCall(
                                setBackground(initialize(three, TRUE), "#f8f8f8"))
                /\ home' = [home EXCEPT !.view = "awaitLoad"]
           ELSE /\ three' = initialize(three, FALSE)
                /\ home' = [home EXCEPT
                              !.view = "done",
                              !.error = MessageOr(e, Str(<<"Failed to load character model">>)),
                              !.loading = FALSE]
        /\ last' = Step("ngAfterViewInit", Home, ok)
        /\ UNCHANGED <<modelLoads, actionLoads>>

\* ngAfterViewInit after loadModel resolved
HomeLoadModelResolved ==
    \E gltf \in ModelAssets :
        /\ home.view = "awaitLoad"
        /\ three' = centerModel(loadModelThen(three, gltf))
        /\ home' = [home EXCEPT !.view = "done",
                                !.listName = getClipNames(three'),
                                !.characterLoaded = TRUE,
                                !.loading = FALSE]
        /\ last' = Step("loadModel.resolved", Home, TRUE)
        /\ UNCHANGED <<modelLoads, actionLoads>>

\* (mutant) the catch block marks the character as loaded
HomeLoadModelRejected_MarksLoaded ==
    \E e \in ErrorMessages :
        /\ home.view = "awaitLoad"
        /\ home' = [home EXCEPT
                      !.view = "done",
                      !.error = MessageOr(e, Str(<<"Failed to load character model">>)),
                      !.characterLoaded = TRUE,
                      !.loading = FALSE]
        /\ last' = Step("loadModel.rejected", Home, FALSE)
        /\ UNCHANGED <<three, modelLoads, actionLoads>>

\* ngAfterViewInit after loadModel rejected with e: the catch block
HomeLoadModelRejected ==
    \E e \in ErrorMessages :
        /\ home.view = "awaitLoad"
        /\ home' = [home EXCEPT
                      !.view = "done",
                      !.error = MessageOr(e, Str(<<"Failed to load character model">>)),
                      !.loading = FALSE]
        /\ last' = Step("loadModel.rejected", Home, FALSE)
        /\ UNCHANGED <<three, modelLoads, actionLoads>>

\* the page is on screen and takes the user's taps
OnScreen == home.view # "created" /\ ~home.destroyed

\* (mutant) the guard does not look at isPlaying
Accepts_WhilePlaying(h) == h.characterLoaded

\* HomePage.playSign, the guard: the selection is taken
Accepts(h) == h.characterLoaded /\ ~h.isPlaying

\* `Failed to play sign: ${sign.id}`
PlayError(signId) == Str(<<"Failed to play sign: ", signId>>)

\* HomePage.playSign(sign) up to its await.  A selection the guard refuses
\* returns at once; one it takes calls playAnimationForExistingModel, which
\* throws at once when there is no current model.
PlaySign ==
    \E signId \in SignIds :
        /\ OnScreen
        /\ IF ~Accepts(home)
           THEN /\ last' = Step("playSign.ignored", Home, FALSE)
                /\ UNCHANGED <<home, actionLoads>>
           ELSE /\ PlaysInUse < MaxSigns
                /\ IF three.currentModel = 0
                   THEN /\ home' = [home EXCEPT !.selectedSign = signId,
                                                !.error = PlayError(signId),
                                                !.isPlaying = FALSE]
                        /\ last' = Step("playSign.rejected", Home, FALSE)
                        /\ UNCHANGED actionLoads
                   ELSE /\ home' = [home EXCEPT !.selectedSign = signId,
                                                !.error = NoString,
                                                !.isPlaying = TRUE]
                        /\ actionLoads' = Append(actionLoads,
                                ActionLoad(three, ActionPath(signId), Home))
                        /\ last' = Step("playSign", Home, TRUE)
        /\ UNCHANGED <<three, modelLoads>>

\* the sign a pending call of playSign was made for
SignOf(load) == load.url[4]

\* playSign after its await: playAnimationForExistingModel resolved (the
\* 4-second timer is started) or rejected (the catch block)
HomeActionLoadSettled ==
    \E i \in DOMAIN actionLoads, gltf \in ActionAssets :
        /\ actionLoads[i].by = Home
        /\ LET r == playAnimationThen(three, actionLoads[i], gltf)
           IN  /\ three' = r.w
               /\ home' = IF r.resolved
                          THEN [home EXCEPT !.timers = @ + 1]
                          ELSE [home EXCEPT !.error = PlayError(SignOf(actionLoads[i])),
                                            !.isPlaying = FALSE]
               /\ last' = Step(IF r.resolved THEN "playSign.resolved"
                               ELSE "playSign.rejected", Home, r.resolved)
        /\ actionLoads' = Without(actionLoads, i)
        /\ UNCHANGED modelLoads

\* (mutant) the callback leaves isPlaying as it is
TimerFired_KeepsPlaying ==
    /\ home.timers > 0
    /\ home' = [home EXCEPT !.timers = @ - 1]
    /\ last' = Step("timer", Home, TRUE)
    /\ UNCHANGED <<three, modelLoads, actionLoads>>

\* the callback of setTimeout(..., 4000)
TimerFired ==
    /\ home.timers > 0
    /\ home' = [home EXCEPT !.timers = @ - 1, !.isPlaying = FALSE]
    /\ last' = Step("timer", Home, TRUE)
    /\ UNCHANGED <<three, modelLoads, actionLoads>>

\* HomePage.playEmbeddedAnimation(name)
PlayEmbeddedAnimation ==
    \E name \in ClipNames :
        /\ OnScreen
        /\ three' = IF ~home.characterLoaded THEN three ELSE play(three, name)
        /\ last' = Step("playEmbeddedAnimation", Home,
                        home.characterLoaded /\ Has(three, name))
        /\ UNCHANGED <<home, modelLoads, actionLoads>>

\* HomePage.ngOnDestroy: the page is torn down; the method body is empty
HomeNgOnDestroy ==
    /\ OnScreen
    /\ home' = [home EXCEPT !.destroyed = TRUE]
    /\ last' = Step("HomePage.ngOnDestroy", Home, TRUE)
    /\ UNCHANGED <<three, modelLoads, actionLoads>>

\* the application ends after its page: Angular destroys the root injector
\* and with it the service
AppDestroyed == home.destroyed /\ InService /\ NgOnDestroy

ScreenNext ==
    \/ NgAfterViewInit
    \/ HomeLoadModelResolved
    \/ HomeLoadModelRejected
    \/ PlaySign
    \/ HomeActionLoadSettled
    \/ TimerFired
    \/ PlayEmbeddedAnimation
    \/ HomeNgOnDestroy
    \/ AppDestroyed
    \/ AnimateFrame

\* One HomePage and the service it is given.
ScreenSpec == Init /\ [][ScreenNext]_vars

\* the calls of playSign waiting for their action asset
HomeLoads == {i \in DOMAIN actionLoads : actionLoads[i].by = Home}

\* The same, every action load settling and every started timer firing.
\* HomeActionLoadSettled is enabled exactly while a call of playSign waits,
\* and stays so until it is taken: weak fairness of it is that again and
\* again no call waits.
FairScreenSpec ==
    ScreenSpec /\ []<>(HomeLoads = {}) /\ WF_vars(TimerFired)

----------------------------------------------------------------------------
(* centerModel as a function of the model it is given                      *)

\* positions and uniform scales a model may have when centerModel is called
\* (the Object3D loadModel returns is the caller's to move and scale)
Positions ==
    {VZero, Vec(RInt(0), RInt(1), RInt(0)), Vec(RInt(1), RInt(2), RInt(3)),
     Vec(RInt(-1), RZero, Rat(1, 2)), Vec(RInt(2), RInt(-1), RZero),
     Vec(RZero, Rat(1, 2), RZero)}
Scales ==
    {Rat(1, 4), Rat(3, 8), Rat(1, 2), RInt(1), Rat(3, 2), RInt(2), RInt(3), RInt(4)}

\* an initialized service whose current model, loaded from one of the
\* assets, has been given one of these positions and scales
CenterInit ==
    /\ \E gltf \in ModelAssets, position \in Positions, scale \in Scales :
          three = [loadModelThen(initialize(NewThreeRenderer, TRUE), gltf)
                      EXCEPT !.models[1].position = position,
                             !.models[1].scale = scale]
    /\ home = NewHomePage
    /\ modelLoads = 0
    /\ actionLoads = <<>>
    /\ last = Step("new", Client, TRUE)

CenterNext == CenterModel

CenterSpec == CenterInit /\ [][CenterNext]_vars

----------------------------------------------------------------------------
(* resize as a function of the service it is called on and of its inputs   *)

\* widths and heights a caller may pass: positive, zero, negative, fractional
Widths == {RInt(-2), RInt(-1), RZero, RInt(1), RInt(2), RInt(3), RInt(4)}
Heights ==
    {RInt(-3), RInt(-1), RZero, Rat(1, 2), RInt(1), RInt(2), RInt(3), RInt(4)}

\* the service as constructed, after an initialize that failed at the
\* renderer, after one that succeeded, and with a model loaded
ResizeInit ==
    /\ three \in {NewThreeRenderer,
                  initialize(NewThreeRenderer, FALSE),
                  initialize(NewThreeRenderer, TRUE)}
                 \cup {loadModelThen(initialize(NewThreeRenderer, TRUE), gltf) :
                         gltf \in ModelAssets}
    /\ home = NewHomePage
    /\ modelLoads = 0
    /\ actionLoads = <<>>
    /\ last = Step("new", Client, TRUE)

\* resize(width, height); the step's outcome tells whether the service had
\* a renderer and a camera
Resize ==
    \E width \in Widths, height \in Heights :
        /\ three' = resize(three, width, height)
        /\ last' = Step("resize", Client,
                        three.renderer # "undefined" /\ three.camera.defined)
        /\ UNCHANGED <<home, modelLoads, actionLoads>>

ResizeNext == Resize

ResizeSpec == ResizeInit /\ [][ResizeNext]_vars

----------------------------------------------------------------------------
(* Claims about the service                                                *)

\* the names of the clips embedded in an asset
NamesOf(gltf) == {gltf.animations[i] : i \in DOMAIN gltf.animations}

\* the model the loadModel call that resolved last has made
Loaded == three.models[Len(three.models)]

\* C3: whenever a loadModel call resolves, getClipNames() is exactly the set
\* of names of the clips embedded in the asset that call loaded, whatever
\* was registered before (clips of the previous model, actions loaded for
\* it) and whatever other loads are in flight.
C3_ClipNamesOfLoadedAsset ==
    last.op = "loadModel.resolved" => getClipNames(three) = NamesOf(Loaded.asset)

\* C3 witness: a second model without clips has just been loaded; the first
\* had the clip Idle and an external action BallSign had been made for it.
C3_Witness ==
    /\ last.op = "loadModel.resolved"
    /\ Len(three.models) = 2
    /\ NamesOf(three.models[1].asset) = {"Idle"}
    /\ NamesOf(Loaded.asset) = {}
    /\ \E i \in DOMAIN three.animationActions :
          /\ three.animationActions[i].external
          /\ three.animationActions[i].root = 1
          /\ three.animationActions[i].clip = "BallSign"

\* the actions the service refers to: the registry's and the active one
Referenced == RegistryActions(three) \cup ({three.activeAction} \ {0})

\* C4: every action of the registry, and the active action if set, belongs
\* to a mixer whose root is the current model, which is not disposed.
C4_AnimationsBelongToCurrentModel ==
    \A id \in Referenced :
        /\ three.currentModel # 0
        /\ three.animationActions[id].root = three.currentModel
        /\ ~three.models[three.currentModel].disposed

\* C9: when a loadModel call rejects, the service has no current model.
C9_NoCurrentModelOnReject ==
    last.op = "loadModel.rejected" => three.currentModel = 0

\* C10: play(name) with a name that is not registered changes neither the
\* active-animation pointer, nor the registry, nor any action's state.
C10_PlayUnregisteredNoChange ==
    [][(last'.op = "play" /\ ~last'.ok)
          => /\ three'.activeAction = three.activeAction
             /\ three'.actions = three.actions
             /\ three'.animationActions = three.animationActions]_vars

\* C10 witness: play was called with an unregistered name while an action
\* was active and running.
C10_Witness ==
    /\ last.op = "play"
    /\ ~last.ok
    /\ three.activeAction # 0
    /\ IsRunning(three, three.activeAction)

\* C13: the scene holds at most one character model, and it is the current
\* model; every model that is not the current one has been removed from the
\* scene and disposed.
C13_SceneHoldsCurrentModelOnly ==
    /\ three.scene.children \subseteq ({three.currentModel} \ {0})
    /\ \A m \in DOMAIN three.models :
          m # three.currentModel =>
              /\ three.models[m].disposed
              /\ m \notin three.scene.children

\* C14: at most one frame callback of the render loop is pending, so a tick
\* runs animate once.
C14_OneFramePending == FramesPending(three) <= 1

\* C15: once ngOnDestroy has returned (here: on a service that had a
\* renderer to dispose), the service has no current model, an empty
\* registry and no active animation, and no frame callback is pending, also
\* after a load that was in flight at that time has completed.
C15_DisposedStaysReleased ==
    three.renderer = "disposed" =>
        /\ three.currentModel = 0
        /\ three.actions = EmptyMap
        /\ three.activeAction = 0
        /\ FramesPending(three) = 0

\* the position and scale a call of playAnimationForExistingModel saved
Saved(load) == [position |-> load.position, scale |-> load.scale]

\* position and scale of the current model
Transform(w) ==
    [position |-> w.models[w.currentModel].position,
     scale |-> w.models[w.currentModel].scale]

\* C16: when playAnimationForExistingModel resolves, the position and scale
\* of the current model are those saved when the call was made, whatever
\* moved the model while the action asset was loading.
C16_TransformRestored ==
    [][last'.op = "playAnimation.resolved"
          => \E i \in DOMAIN actionLoads :
                /\ actionLoads' = Without(actionLoads, i)
                /\ Transform(three') = Saved(actionLoads[i])]_vars

\* C16 witness: the call has resolved on the model it was made for, which
\* centerModel had moved during the load (the controls look at its middle)
\* and which is back where it was, not where centerModel puts it.
C16_Witness ==
    /\ last.op = "playAnimation.resolved"
    /\ Len(three.models) = 1
    /\ three.controls.targetY # RInt(1)
    /\ Transform(three) # Transform(centerModel(three))

\* C17: whenever the active animation changes from a running animation to
\* a different one, the former is faded out, not stopped; and play(name)
\* with a registered name leaves the target running and active.
C17_PreviousActiveFadedOut ==
    [][/\ (/\ three.activeAction # 0
           /\ three'.activeAction # 0
           /\ three'.activeAction # three.activeAction
           /\ IsRunning(three, three.activeAction))
          => three'.animationActions[three.activeAction].mode = "fadingOut"
       /\ (last'.op = "play" /\ last'.ok)
          => /\ three'.activeAction # 0
             /\ IsRunning(three', three'.activeAction)]_vars

\* C18: a playAnimationForExistingModel that rejects because its asset did
\* not load or held no clip has changed neither the registry nor the
\* active-animation pointer nor the current model (the part before the
\* await changes nothing at all); the current model, if there is one, is
\* visible, and has the position and scale it had, unless its y was 0: then
\* it has those centerModel() gives it.
C18_RecoveryKeepsModel ==
    [][/\ last'.op = "playAnimation" => three' = three
       /\ last'.op = "playAnimation.rejected"
          => /\ three'.actions = three.actions
             /\ three'.activeAction = three.activeAction
             /\ three'.currentModel = three.currentModel
             /\ three.currentModel # 0
                => /\ three'.models[three.currentModel].visible
                   /\ Transform(three') =
                        IF three.models[three.currentModel].position.y = RZero
                        THEN Transform(centerModel(three))
                        ELSE Transform(three)]_vars

\* C18 witness: the call was rejected while an animation was active and
\* running on a current model standing at y = 0.
C18_Witness ==
    /\ last.op = "playAnimation.rejected"
    /\ three.currentModel # 0
    /\ three.models[three.currentModel].position.y = RZero
    /\ three.activeAction # 0
    /\ IsRunning(three, three.activeAction)

\* C19: when the model that was current at the call is no longer the current
\* model as the action asset arrives, the rest of
\* playAnimationForExistingModel makes no mixer and no action, sets no
\* active animation and copies no saved position or scale.
C19_OnlyCallTimeModel ==
    [][last'.op \in {"playAnimation.resolved", "playAnimation.threw"}
          => \E i \in DOMAIN actionLoads :
                /\ actionLoads' = Without(actionLoads, i)
                /\ actionLoads[i].model # three.currentModel
                   => /\ three'.mixer = three.mixer
                      /\ Len(three'.animationActions) = Len(three.animationActions)
                      /\ three'.activeAction \in {0, three.activeAction}
                      /\ three.currentModel # 0
                         => Transform(three') = Transform(three)]_vars

\* C20: when playAnimationForExistingModel has resolved, the registry holds
\* the name of the clip just started, and the action under that name is the
\* active one (so that play(name) replays it).
C20_RegisteredActionIsActive ==
    last.op = "playAnimation.resolved" =>
        /\ three.activeAction # 0
        /\ three.actions[three.animationActions[three.activeAction].clip]
              = three.activeAction

\* C11: playAnimationForExistingModel called while the service has no
\* current model rejects with the 'No character model loaded' error, starts
\* no asset load, and leaves the mixer, the registry and the active-animation
\* pointer as they were.
C11_NoModelRejects ==
    [][(last'.op \in {"playAnimation", "playAnimation.noModel"}
           /\ three.currentModel = 0)
          => /\ last'.op = "playAnimation.noModel"
             /\ ~last'.ok
             /\ actionLoads' = actionLoads
             /\ three'.mixer = three.mixer
             /\ three'.actions = three.actions
             /\ three'.activeAction = three.activeAction]_vars

\* C11 witness: the call was refused on a service that has a scene and a
\* mixer (left behind by an earlier call whose model was disposed during its
\* load) but no current model.
C11_Witness ==
    /\ last.op = "playAnimation.noModel"
    /\ three.currentModel = 0
    /\ three.scene.defined
    /\ three.mixer = RootUndefined

\* C12: resize(width, height) on a service with a renderer and a camera
\* leaves an aspect that is a finite number, at least the minimum 1e-6 and
\* so strictly positive, whatever the width and the height (zero and
\* negative ones included: no division by zero); on a service that was not
\* initialized, or whose initialize failed, it changes nothing.
C12_ResizeAspectPositive ==
    [][last'.op = "resize"
          => IF three.renderer = "undefined" \/ ~three.camera.defined
             THEN three' = three
             ELSE /\ IsFinite(three'.camera.aspect)
                  /\ ~RLess(three'.camera.aspect, MinAspect)
                  /\ RLess(RZero, three'.camera.aspect)]_vars

\* C12 witness: resize was called with a positive width and the height 0 on
\* an initialized service: the aspect is the width.
C12_Witness ==
    /\ last.op = "resize"
    /\ last.ok
    /\ three.size[2] = RZero
    /\ RLess(RZero, three.size[1])
    /\ three.camera.aspect = three.size[1]

----------------------------------------------------------------------------
(* Claims about HomePage driving the service                               *)

\* C1: a playSign the guard let through ends in one of two ways.  Either
\* playAnimationForExistingModel resolves, and then the active animation is
\* the action just built, it runs, and every other action the service
\* holds (its registry) is stopped; or it rejects, and then isPlaying is
\* false and error is a non-empty string.
C1_PlaySignOutcome ==
    /\ last.op = "playSign.resolved" =>
          /\ three.activeAction = Len(three.animationActions)
          /\ three.activeAction # 0
          /\ three.animationActions[three.activeAction].external
          /\ IsRunning(three, three.activeAction)
          /\ \A id \in RegistryActions(three) \ {three.activeAction} :
                three.animationActions[id].mode = "stopped"
    /\ last.op = "playSign.rejected" =>
          /\ ~home.isPlaying
          /\ Truthy(home.error)

\* C1 witness: a sign's action has just started while the registry holds
\* another action, that of the clip embedded in the character.
C1_Witness ==
    /\ last.op = "playSign.resolved"
    /\ home.selectedSign \in SignIds
    /\ RegistryActions(three) \ {three.activeAction} # {}

\* C2: a selection made while isPlaying is true starts no load and changes
\* neither the page nor the service; so at most one action load started by
\* playSign is outstanding at any time.
C2_SelectionIgnoredWhilePlaying ==
    /\ [](Cardinality(HomeLoads) <= 1)
    /\ [][(PlaySign /\ home.isPlaying)
             => UNCHANGED <<three, home, modelLoads, actionLoads>>]_vars

\* C2 witness: a selection has just been refused while the load of an
\* earlier one is outstanding.
C2_Witness ==
    /\ last.op = "playSign.ignored"
    /\ home.isPlaying
    /\ Cardinality(HomeLoads) = 1

\* C6: once the page is torn down no frame callback is pending, the service
\* has no current model, its renderer is disposed and its scene is empty.
C6_TeardownReleases ==
    home.destroyed =>
        /\ ~three.raf.current /\ three.raf.other = 0
        /\ three.currentModel = 0
        /\ \A m \in DOMAIN three.models : three.models[m].disposed
        /\ three.renderer # "live"
        /\ three.scene.children = {} /\ ~three.scene.lights

\* C7: when the loadModel call of ngAfterViewInit rejects, the page has
\* loading = false, a non-empty error and characterLoaded = false, and
\* stays so; characterLoaded is true only once loadModel has resolved.
C7_LoadFailureShown ==
    /\ (home.view = "done" /\ Len(three.models) = 0) =>
          /\ ~home.loading
          /\ Truthy(home.error)
          /\ ~home.characterLoaded
    /\ home.characterLoaded => (home.view = "done" /\ Len(three.models) > 0)

\* C7 witness: the character's load has just been rejected, after a
\* successful initialize.
C7_Witness ==
    /\ last.op = "loadModel.rejected"
    /\ last.by = Home
    /\ three.renderer = "live"
    /\ ~home.loading

\* C8: after a playSign whose load resolved, isPlaying is true as long as
\* the timer started at resolution is pending and false once it has fired;
\* and with every load settling and every timer firing, isPlaying = true
\* is always followed by isPlaying = false.
C8_PlayingUntilTimer ==
    /\ [](home.timers > 0 => home.isPlaying)
    /\ [][TimerFired => ~home'.isPlaying]_vars
    /\ (home.isPlaying ~> ~home.isPlaying)

\* C8 witness: the load of a sign has resolved and its timer is pending.
C8_Witness ==
    /\ home.timers > 0
    /\ home.isPlaying
    /\ three.activeAction # 0

\* C21: while the service lives, characterLoaded = true implies that it has
\* a current model; and no playSign the guard lets through finds the
\* service without one: every playSign that rejects had started its load.
C21_LoadedMeansCurrentModel ==
    /\ []((home.characterLoaded /\ InService) => three.currentModel # 0)
    /\ [][/\ last'.op = "playSign" => three.currentModel # 0
          /\ last'.op = "playSign.rejected" => Len(actionLoads') < Len(actionLoads)]_vars

\* C21 witness: a selection has just been taken and its action load started
\* on the current model.
C21_Witness ==
    /\ last.op = "playSign"
    /\ home.characterLoaded
    /\ home.isPlaying
    /\ three.currentModel # 0
    /\ Cardinality(HomeLoads) = 1

----------------------------------------------------------------------------
(* Claims about centerModel                                                *)

\* C5: calling centerModel() twice in succession leaves the model with the
\* position and scale one call leaves, for every bounding box, starting
\* position and uniform scale: after a call, another call changes neither.
C5_CenterModelIdempotent ==
    (last.op = "centerModel" /\ last.ok)
        => Transform(centerModel(three)) = Transform(three)

====
